---- MODULE Spec2Model ----
(***************************************************************************)
(* A model of km::KMedoids (BanditPAM): the public interface of the class  *)
(* (construction, the setters, setLossFn, fit), the three OpenMP parallel  *)
(* regions (build_sigma, calc_best_distances_swap, swap_sigma) and the     *)
(* BUILD / SWAP engines.                                                   *)
(*                                                                         *)
(* Conventions.  Indices are 0-based as in the C++ code: a vector of       *)
(* length n is a function with domain 0..n-1.  A std::string is a sequence *)
(* of one-character strings.  The data matrix has d = 1 row with integer   *)
(* entries, so every distance is an integer; a double that is a quotient   *)
(* or a square root of integers is kept as its integer numerator (the      *)
(* denominators are written next to each such definition) and compared     *)
(* exactly.                                                                *)
(***************************************************************************)
EXTENDS Integers, Sequences, FiniteSets, TLC

VARIABLES
    live,                  \* "none" | "live" | "exited" | "crashed": the object / the process
    algorithm,             \* KMedoids::algorithm
    fitFn,                 \* KMedoids::fitFn
    lossFn,                \* KMedoids::lossFn
    lp,                    \* KMedoids::lp
    n_medoids,             \* KMedoids::n_medoids
    max_iter,              \* KMedoids::max_iter
    medoid_indices_build,  \* KMedoids::medoid_indices_build
    medoid_indices_final,  \* KMedoids::medoid_indices_final
    labels,                \* KMedoids::labels
    steps,                 \* KMedoids::steps
    call                   \* the last call of the interface and how it ended

apiVars == <<live, algorithm, fitFn, lossFn, lp, n_medoids, max_iter,
             medoid_indices_build, medoid_indices_final, labels, steps, call>>

VARIABLES
    run                    \* one call of fit_bpam, or one parallel region: its
                           \* arguments, locals and position

vars == <<apiVars, run>>

(***************************************************************************)
(* Bounds of the model.                                                    *)
(***************************************************************************)
MaxNameLen == 3
NPoints == 3               \* columns of the data matrices of a fit
MaxCoord == 3              \* the data are integers 0 .. MaxCoord
MaxIterBound == 2          \* max_iter is 1 or MaxIterBound

(***************************************************************************)
(* Strings.                                                                *)
(***************************************************************************)
Digits == {"0", "1", "2", "3", "4", "5", "6", "7", "8", "9"}

DigitVal(c) ==
    CASE c = "0" -> 0 [] c = "1" -> 1 [] c = "2" -> 2 [] c = "3" -> 3
      [] c = "4" -> 4 [] c = "5" -> 5 [] c = "6" -> 6 [] c = "7" -> 7
      [] c = "8" -> 8 [] c = "9" -> 9

\* std::isdigit
IsDigit(c) == c \in Digits

\* The characters the enumerated names are written in.
NameChars == {"L", "1", "2", "7", "-", "x"}

RECURSIVE SeqsUpTo(_, _)
SeqsUpTo(S, n) ==
    IF n = 0 THEN {<<>>}
    ELSE LET shorter == SeqsUpTo(S, n - 1)
         IN  shorter \cup {Append(s, c) : s \in {t \in shorter : Len(t) = n - 1}, c \in S}

STR_manhattan == <<"m", "a", "n", "h", "a", "t", "t", "a", "n">>
STR_cos == <<"c", "o", "s">>
STR_inf == <<"i", "n", "f">>

\* The loss names handed to setLossFn and fit.
LossNames == SeqsUpTo(NameChars, MaxNameLen) \cup {STR_manhattan, STR_cos, STR_inf}

\* The algorithm names handed to the constructor and to setAlgorithm.
AlgorithmNames == {"BanditPAM", "naive", "banditpam", "PAM", ""}

\* std::regex_match(loss, std::regex("L\\d*")): the whole string is an L
\* followed by any number of digits.
RegexMatchLDigits(s) ==
    /\ Len(s) >= 1
    /\ s[1] = "L"
    /\ \A i \in 2..Len(s) : IsDigit(s[i])

\* loss.substr(1)
Substr1(s) == SubSeq(s, 2, Len(s))

\* atoi on a string whose first character is a digit: the value of the longest
\* prefix of digits.
RECURSIVE AtoiFrom(_, _, _)
AtoiFrom(s, i, acc) ==
    IF i > Len(s) \/ ~IsDigit(s[i]) THEN acc
    ELSE AtoiFrom(s, i + 1, 10 * acc + DigitVal(s[i]))

Atoi(s) == AtoiFrom(s, 1, 0)

(***************************************************************************)
(* setLossFn.  The outcome is the new (lossFn, lp) and how the call ended: *)
(* "ok", "printed" (std::invalid_argument thrown and caught inside         *)
(* setLossFn, its text written to std::cout, nothing rethrown) or          *)
(* "out_of_range" (loss.at(0) on an empty string throws std::out_of_range, *)
(* which the handler for std::invalid_argument does not catch).            *)
(***************************************************************************)
StripL(loss) == IF RegexMatchLDigits(loss) THEN Substr1(loss) ELSE loss

setLossFnOutcome(loss, oldFn, oldLp) ==
    LET l == StripL(loss)
    IN  IF l = STR_manhattan THEN [lossFn |-> "manhattan", lp |-> oldLp, end |-> "ok"]
        ELSE IF l = STR_cos THEN [lossFn |-> "cos", lp |-> oldLp, end |-> "ok"]
        ELSE IF l = STR_inf THEN [lossFn |-> "LINF", lp |-> oldLp, end |-> "ok"]
        ELSE IF Len(l) = 0 THEN [lossFn |-> oldFn, lp |-> oldLp, end |-> "out_of_range"]
        ELSE IF IsDigit(l[1]) THEN [lossFn |-> "LP", lp |-> Atoi(l), end |-> "ok"]
        ELSE [lossFn |-> oldFn, lp |-> oldLp, end |-> "printed"]

(***************************************************************************)
(* checkAlgorithm: the new fitFn, or the thrown "unrecognized algorithm".  *)
(***************************************************************************)
\* an unknown name falling back to BanditPAM instead of throwing
checkAlgorithmLenient(alg, oldFn) ==
    IF alg = "naive" THEN [fitFn |-> "fit_naive", end |-> "ok"]
    ELSE [fitFn |-> "fit_bpam", end |-> "ok"]

checkAlgorithmOutcome(alg, oldFn) ==
    IF alg = "BanditPAM" THEN [fitFn |-> "fit_bpam", end |-> "ok"]
    ELSE IF alg = "naive" THEN [fitFn |-> "fit_naive", end |-> "ok"]
    ELSE [fitFn |-> oldFn, end |-> "unrecognized algorithm"]

(***************************************************************************)
(* Numbers.  std::numeric_limits<double>::infinity() is a number above     *)
(* every distance and every sum of distances of the model.                 *)
(***************************************************************************)
Infinity == 1000000

Abs(x) == IF x < 0 THEN -x ELSE x

Min2(a, b) == IF a < b THEN a ELSE b

RECURSIVE SumTo(_, _)
\* f[0] + ... + f[n-1]
SumTo(f, n) == IF n = 0 THEN 0 ELSE SumTo(f, n - 1) + f[n - 1]

\* n + sqrt(pb) > sqrt(pa), for an integer n and integers pa, pb >= 0, decided
\* exactly by squaring twice.
GtSqrtDiff(n, pa, pb) ==
    IF n >= 0
    THEN LET r == pa - pb - n * n
         IN  r < 0 \/ 4 * n * n * pb > r * r
    ELSE LET r == pb - pa - n * n
         IN  r > 0 /\ r * r > 4 * n * n * pa

(***************************************************************************)
(* The loss functions on a data matrix of one row: data is a function from *)
(* the column index to the integer in that column.                         *)
(*   manhattan: accu(abs(col i - col j))      = |x_i - x_j|                *)
(*   LINF:      max(abs(col i - col j))       = |x_i - x_j|                *)
(*   LP:        norm(col i - col j, lp), lp >= 1: (|x_i - x_j|^lp)^(1/lp)  *)
(*   cos:       dot / (norm * norm) = +1 or -1 for non-zero entries (a     *)
(*              zero entry gives 0/0; the data sets of the model hold no   *)
(*              zero when cos is selected)                                 *)
(***************************************************************************)
manhattan(data, i, j) == Abs(data[i] - data[j])

LINF(data, i, j) == Abs(data[i] - data[j])

LP(data, i, j) == Abs(data[i] - data[j])

cos(data, i, j) == IF (data[i] > 0) = (data[j] > 0) THEN 1 ELSE -1

\* (this->*lossFn)(data, i, j)
Loss(fn, data, i, j) ==
    CASE fn = "manhattan" -> manhattan(data, i, j)
      [] fn = "LINF" -> LINF(data, i, j)
      [] fn = "LP" -> LP(data, i, j)
      [] fn = "cos" -> cos(data, i, j)

NCols(data) == Cardinality(DOMAIN data)

(***************************************************************************)
(* calc_best_distances_swap, one iteration i of its parallel loop: the     *)
(* scan over the medoid positions k = from .. K-1, on the locals best and  *)
(* second and on the slot assignments(i).                                  *)
(***************************************************************************)
\* the comparison with <= in place of <
BestStepLe(cost, bound) == cost <= bound

BestStepLt(cost, bound) == cost < bound

RECURSIVE BestScan(_, _, _, _, _, _)
BestScan(fn, data, medoid_indices, i, k, st) ==
    IF k >= NCols(medoid_indices) THEN st
    ELSE LET cost == Loss(fn, data, medoid_indices[k], i)
             nxt  == IF BestStepLt(cost, st.best)
                     THEN [best |-> cost, second |-> st.best, a |-> k]
                     ELSE IF cost < st.second
                          THEN [st EXCEPT !.second = cost]
                          ELSE st
         IN  BestScan(fn, data, medoid_indices, i, k + 1, nxt)

\* What iteration i leaves in best_distances(i), second_distances(i) and
\* assignments(i); oldA is assignments(i) before the call.
BestOfPoint(fn, data, medoid_indices, i, oldA) ==
    BestScan(fn, data, medoid_indices, i, 0,
             [best |-> Infinity, second |-> Infinity, a |-> oldA])

\* The whole call, its iterations touching disjoint slots: the three output
\* vectors.
calc_best_distances_swap(fn, data, medoid_indices, oldAssignments) ==
    LET r == [i \in DOMAIN data |->
                 BestOfPoint(fn, data, medoid_indices, i, oldAssignments[i])]
    IN  [best_distances   |-> [i \in DOMAIN data |-> r[i].best],
         second_distances |-> [i \in DOMAIN data |-> r[i].second],
         assignments      |-> [i \in DOMAIN data |-> r[i].a]]

(***************************************************************************)
(* calc_loss: the inner loop runs k over 0 .. n_medoids-1 (the member),    *)
(* whatever the length of medoid_indices.                                  *)
(***************************************************************************)
RECURSIVE LossScan(_, _, _, _, _, _, _)
LossScan(fn, data, medoid_indices, nMed, i, k, cost) ==
    IF k >= nMed THEN cost
    ELSE LET currCost == Loss(fn, data, medoid_indices[k], i)
         IN  LossScan(fn, data, medoid_indices, nMed, i, k + 1,
                      IF currCost < cost THEN currCost ELSE cost)

calc_loss(fn, data, medoid_indices, nMed) ==
    SumTo([i \in DOMAIN data |-> LossScan(fn, data, medoid_indices, nMed, i, 0, Infinity)],
          NCols(data))

(***************************************************************************)
(* arma::stddev(sample) = sqrt(VarNum(sample) / VarDen(B)) for a sample of *)
(* B values (norm_type 0: divisor B - 1; a single value gives 0).          *)
(***************************************************************************)
VarNum(sample) ==
    LET B  == NCols(sample)
        s1 == SumTo(sample, B)
        s2 == SumTo([j \in DOMAIN sample |-> sample[j] * sample[j]], B)
    IN  IF B <= 1 THEN 0 ELSE B * s2 - s1 * s1

VarDen(B) == IF B <= 1 THEN 1 ELSE B * (B - 1)

(***************************************************************************)
(* The value build_sigma stores in sample(j) for candidate i, and the one  *)
(* swap_sigma stores for the swap (k, n); refs is tmp_refs.                *)
(***************************************************************************)
buildSample(fn, data, best_distances, use_absolute, i, ref) ==
    LET cost == Loss(fn, data, i, ref)
    IN  IF use_absolute THEN cost
        ELSE (IF cost < best_distances[ref] THEN cost ELSE best_distances[ref])
             - best_distances[ref]

swapSample(fn, data, best_distances, second_best_distances, assignments, k, n, ref) ==
    LET cost == Loss(fn, data, n, ref)
    IN  (IF k = assignments[ref]
         THEN (IF cost < second_best_distances[ref] THEN cost
               ELSE second_best_distances[ref])
         ELSE (IF cost < best_distances[ref] THEN cost ELSE best_distances[ref]))
        - best_distances[ref]

(***************************************************************************)
(* build_sigma and swap_sigma when the iterations of the parallel loop run *)
(* one after the other: sigma(i) is the stddev of iteration i's own        *)
(* samples.  Kept as the numerator VarNum; refs is tmp_refs, a function    *)
(* from 0 .. batch_size-1 to distinct column indices.                      *)
(***************************************************************************)
build_sigma(fn, data, best_distances, refs, use_absolute) ==
    [i \in DOMAIN data |->
        VarNum([j \in DOMAIN refs |->
                   buildSample(fn, data, best_distances, use_absolute, i, refs[j])])]

\* sigma(k, n) for the flat index i = n * K + k, as a function of <<k, n>>
swap_sigma(fn, data, K, refs, best_distances, second_best_distances, assignments) ==
    [arm \in (0..(K - 1)) \X (DOMAIN data) |->
        VarNum([j \in DOMAIN refs |->
                   swapSample(fn, data, best_distances, second_best_distances,
                              assignments, arm[1], arm[2], refs[j])])]

(***************************************************************************)
(* The bandit loop shared by BUILD and SWAP (spec 4.4 steps 3-5, 4.5 step  *)
(* 4).  The statistics of a pass:                                          *)
(*   S          the active arms                                            *)
(*   sum, cnt   mu[c] = sum[c] / cnt[c], the running mean of the samples   *)
(*   T          samples drawn, capped at n                                 *)
(*   exhausted  T >= n; CB = 0                                             *)
(*   sigma      VarNum of the pass's sigma batch: sigma[c]^2 =             *)
(*              sigma[c] / VarDen(B)                                       *)
(* reward[c][j] is the sample of arm c at reference point j.               *)
(***************************************************************************)
ArmInit(Arms, sigma) ==
    [S         |-> Arms,
     sum       |-> [c \in Arms |-> 0],
     cnt       |-> [c \in Arms |-> 0],
     T         |-> [c \in Arms |-> 0],
     exhausted |-> [c \in Arms |-> FALSE],
     sigma     |-> sigma]

\* Step 4b: every active arm that is not exhausted takes in the batch.
ArmUpdate(st, reward, refs, n) ==
    LET B    == NCols(refs)
        live_(c) == c \in st.S /\ ~st.exhausted[c]
        newT(c)  == Min2(st.T[c] + B, n)
    IN  [st EXCEPT
           !.sum = [c \in DOMAIN st.sum |->
                       IF live_(c)
                       THEN st.sum[c] + SumTo([j \in DOMAIN refs |-> reward[c][refs[j]]], B)
                       ELSE st.sum[c]],
           !.cnt = [c \in DOMAIN st.cnt |->
                       IF live_(c) THEN st.cnt[c] + B ELSE st.cnt[c]],
           !.T   = [c \in DOMAIN st.T |-> IF live_(c) THEN newT(c) ELSE st.T[c]],
           !.exhausted = [c \in DOMAIN st.exhausted |->
                             IF live_(c) THEN newT(c) >= n ELSE st.exhausted[c]]]

\* lcb[a] > lcb[b] for two active arms, which have taken in the same batches
\* (cnt[a] = cnt[b], T[a] = T[b]):
\*   sum[a]/cnt - CB[a] > sum[b]/cnt - CB[b],
\*   CB[c] = 0 if exhausted, else sqrt(sigma[c]/VarDen(B)) * sqrt(conf / T);
\* with cnt = T while not exhausted, times T * VarDen(B).
LcbGreater(st, B, conf, a, b) ==
    IF st.exhausted[a]
    THEN st.sum[a] > st.sum[b]
    ELSE GtSqrtDiff(VarDen(B) * (st.sum[a] - st.sum[b]),
                    conf * st.sigma[a] * st.T[a] * VarDen(B),
                    conf * st.sigma[b] * st.T[b] * VarDen(B))

\* only an arm whose lcb is strictly below every other lcb is kept
ArmSurvivorsStrict(st, B, conf) ==
    {c \in st.S : \A b \in st.S \ {c} : LcbGreater(st, B, conf, b, c)}

\* Step 4c: an arm whose lcb is above the smallest lcb of S is eliminated.
ArmSurvivors(st, B, conf) ==
    {c \in st.S : ~\E b \in st.S : LcbGreater(st, B, conf, c, b)}

\* The statistics of an eliminated arm are never read again; they are dropped.
ArmEliminate(st, B, conf) ==
    LET keep == ArmSurvivors(st, B, conf)
    IN  [S         |-> keep,
         sum       |-> [c \in keep |-> st.sum[c]],
         cnt       |-> [c \in keep |-> st.cnt[c]],
         T         |-> [c \in keep |-> st.T[c]],
         exhausted |-> [c \in keep |-> st.exhausted[c]],
         sigma     |-> [c \in keep |-> st.sigma[c]]]

ArmRound(st, reward, refs, n, conf) ==
    ArmEliminate(ArmUpdate(st, reward, refs, n), NCols(refs), conf)

\* The loop of step 4 runs until |S| <= 1 or all of S is exhausted.
ArmLoopDone(st) ==
    Cardinality(st.S) <= 1 \/ \A c \in st.S : st.exhausted[c]

\* mu[a] < mu[b] for two active arms (cnt[a] = cnt[b])
MuLess(st, a, b) == st.sum[a] < st.sum[b]

\* The arms of S with the smallest mu.
ArmBest(st) == {c \in st.S : ~\E b \in st.S : MuLess(st, b, c)}

(***************************************************************************)
(* fit_bpam: BUILD (spec 4.4) then SWAP (spec 4.5), one step per sigma     *)
(* estimation, per round of the elimination loop and per selection.  The   *)
(* parallel regions are taken whole here, their iterations in index order. *)
(***************************************************************************)
precisionDen == 1000       \* precision = 0.001 = 1 / precisionDen

EmptyVec == [i \in {} |-> 0]

Append0(f, x) == [i \in 0..NCols(f) |-> IF i < NCols(f) THEN f[i] ELSE x]

Range(f) == {f[i] : i \in DOMAIN f}

MinOf(S) == CHOOSE x \in S : \A y \in S : x <= y

\* the medoid vectors of length K over the columns of data
MedoidVecs(data, K) == [0..(K - 1) -> DOMAIN data]

\* arma::randperm(N, batch_size): batch_size distinct columns.  The order of
\* the batch does not matter once a region is taken whole, so a batch is
\* listed in increasing order.
Batches(n, B) ==
    {r \in [0..(B - 1) -> 0..(n - 1)] : \A i, j \in 0..(B - 1) : i < j => r[i] < r[j]}

\* The data sets of a fit: the columns in non-decreasing order, the smallest
\* entry 0 (a distance depends on the difference of two entries only).
DataSets ==
    {d \in [0..(NPoints - 1) -> 0..MaxCoord] :
        /\ d[0] = 0
        /\ \A i \in 0..(NPoints - 2) : d[i] <= d[i + 1]}

\* d1 for a medoid vector M, Infinity while M is empty
BestDistances(fn, data, M) ==
    [i \in DOMAIN data |-> LossScan(fn, data, M, NCols(M), i, 0, Infinity)]

BuildReward(fn, data, d1, use_absolute) ==
    [c \in DOMAIN data |-> [j \in DOMAIN data |->
        buildSample(fn, data, d1, use_absolute, c, j)]]

SwapArms(data, M) ==
    {arm \in (DOMAIN M) \X (DOMAIN data) : arm[2] \notin Range(M)}

SwapReward(fn, data, K, d1, d2, a) ==
    [arm \in (0..(K - 1)) \X (DOMAIN data) |-> [j \in DOMAIN data |->
        swapSample(fn, data, d1, d2, a, arm[1], arm[2], j)]]

\* lowest k, then lowest n'
ArmBefore(x, y) == x[1] < y[1] \/ (x[1] = y[1] /\ x[2] <= y[2])

FirstArm(S) == CHOOSE x \in S : \A y \in S : ArmBefore(x, y)

\* mu < -precision for the mean sum / cnt (0 / 0 is the initial mu = 0)
StrictImprovement(sum, cnt) == precisionDen * sum < -cnt

NoStats == ArmInit({}, EmptyVec)

FitInit(data, fn, k, maxIter, B, conf) ==
    [data |-> data, lossFn |-> fn, k |-> k, max_iter |-> maxIter,
     B |-> B, conf |-> conf,
     pc |-> "build_sigma", M |-> EmptyVec,
     d1 |-> [i \in DOMAIN data |-> Infinity],
     d2 |-> [i \in DOMAIN data |-> Infinity],
     a  |-> [i \in DOMAIN data |-> 0],
     st |-> NoStats, iter |-> 0, steps |-> 0,
     build_M |-> EmptyVec, final_M |-> EmptyVec,
     loss_swap |-> <<>>, stop |-> "running"]

\* buildConfidence * log(1/p) and swapConfidence * log(1/p) of the bound CB
ConfFactors == {1}

\* 4.4 steps 1-3: the sigma batch refs, then mu = 0, T = 0, nothing exhausted
BuildSigmaOf(r, refs) ==
    [r EXCEPT
       !.st = ArmInit(DOMAIN r.data,
                      build_sigma(r.lossFn, r.data, r.d1, refs, NCols(r.M) = 0)),
       !.pc = "build_loop"]

\* 4.4 step 4, one round on the batch refs
BuildRoundOf(r, refs) ==
    [r EXCEPT
       !.st = ArmRound(r.st, BuildReward(r.lossFn, r.data, r.d1, NCols(r.M) = 0),
                       refs, NCols(r.data), r.conf)]

\* 4.4 step 5: the survivor with the smallest mu, ties to the lowest index
BuildSurvivor(st) == MinOf(ArmBest(st))

\* 4.4 step 5 and, after the k-th pass, the finalization
BuildPickOf(r) ==
    LET newM == Append0(r.M, BuildSurvivor(r.st))
        full == NCols(newM) = r.k
        bd   == calc_best_distances_swap(r.lossFn, r.data, newM, r.a)
    IN  [r EXCEPT
           !.M = newM,
           !.d1 = BestDistances(r.lossFn, r.data, newM),
           !.st = NoStats,
           !.build_M = IF full THEN newM ELSE @,
           !.a = IF full THEN bd.assignments ELSE @,
           !.loss_swap = IF full THEN <<calc_loss(r.lossFn, r.data, newM, r.k)>> ELSE @,
           !.pc = IF full THEN "swap_begin" ELSE "build_sigma"]

\* the cap tested one iteration late
SwapCapLate(r) == r.iter > r.max_iter

\* 4.5: SWAP runs at most max_iter iterations
SwapCapReached(r) == r.iter >= r.max_iter

SwapCapOf(r) == [r EXCEPT !.pc = "done", !.final_M = r.M, !.stop = "max_iter"]

\* 4.5 steps 1-3
SwapSigmaOf(r, refs) ==
    LET bd   == calc_best_distances_swap(r.lossFn, r.data, r.M, r.a)
        sg   == swap_sigma(r.lossFn, r.data, r.k, refs, bd.best_distances,
                           bd.second_distances, bd.assignments)
        arms == SwapArms(r.data, r.M)
    IN  [r EXCEPT
           !.d1 = bd.best_distances,
           !.d2 = bd.second_distances,
           !.a  = bd.assignments,
           !.st = ArmInit(arms, [c \in arms |-> sg[c]]),
           !.pc = "swap_loop"]

\* 4.5 step 4, one round on the batch refs
SwapRoundOf(r, refs) ==
    [r EXCEPT
       !.st = ArmRound(r.st, SwapReward(r.lossFn, r.data, r.k, r.d1, r.d2, r.a),
                       refs, NCols(r.data), r.conf)]

\* 4.5 steps 5-6: the survivor of a finished loop is accepted
SwapAccepts(r) ==
    /\ r.st.S # {}
    /\ LET arm == FirstArm(ArmBest(r.st))
       IN  StrictImprovement(r.st.sum[arm], r.st.cnt[arm])

\* 4.5 step 5: no survivor, or no strict improvement
SwapStopOf(r) ==
    [r EXCEPT !.pc = "done", !.final_M = r.M, !.st = NoStats,
              !.stop = "no_improvement"]

\* 4.5 step 6
SwapAcceptOf(r) ==
    LET arm  == FirstArm(ArmBest(r.st))
        newM == [r.M EXCEPT ![arm[1]] = arm[2]]
    IN  [r EXCEPT
           !.M = newM,
           !.steps = @ + 1,
           !.iter = @ + 1,
           !.st = NoStats,
           !.loss_swap = Append(@, calc_loss(r.lossFn, r.data, newM, r.k)),
           !.pc = "swap_begin"]

\* The outputs of a fit, as the getters return them
Outputs(b, f, l, s) ==
    [medoid_indices_build |-> b, medoid_indices_final |-> f, labels |-> l, steps |-> s]

NoOutputs == Outputs(EmptyVec, EmptyVec, EmptyVec, 0)

\* call: the operation, its algorithm-name and loss-name arguments, how it
\* ended, whether it ran the fit routine, and the outputs before it
Call(op, alg, loss, end, ran, before) ==
    [op |-> op, alg |-> alg, loss |-> loss, end |-> end, ran |-> ran, before |-> before]

NoCall == Call("none", "", <<>>, "ok", FALSE, NoOutputs)

\* The object before it is constructed.
ApiIdle ==
    /\ live = "none"
    /\ algorithm = ""
    /\ fitFn = "unset"
    /\ lossFn = "unset"
    /\ lp = 0
    /\ n_medoids = 0
    /\ max_iter = 0
    /\ medoid_indices_build = EmptyVec
    /\ medoid_indices_final = EmptyVec
    /\ labels = EmptyVec
    /\ steps = 0
    /\ call = NoCall

\* A fit_bpam call on its own: the data, k, max_iter and the batch size vary
InitFit ==
    /\ ApiIdle
    /\ run \in {FitInit(data, "manhattan", k, mi, B, conf) :
                 data \in DataSets, k \in 1..NPoints, mi \in {1, MaxIterBound},
                 B \in {NPoints - 1, NPoints}, conf \in ConfFactors}

BuildSigmaStep ==
    /\ UNCHANGED apiVars
    /\ run.pc = "build_sigma"
    /\ \E refs \in Batches(NCols(run.data), run.B) : run' = BuildSigmaOf(run, refs)

BuildRoundStep ==
    /\ UNCHANGED apiVars
    /\ run.pc = "build_loop"
    /\ ~ArmLoopDone(run.st)
    /\ \E refs \in Batches(NCols(run.data), run.B) : run' = BuildRoundOf(run, refs)

BuildPickStep ==
    /\ UNCHANGED apiVars
    /\ run.pc = "build_loop"
    /\ ArmLoopDone(run.st)
    /\ run' = BuildPickOf(run)

SwapCapStep ==
    /\ UNCHANGED apiVars
    /\ run.pc = "swap_begin"
    /\ SwapCapReached(run)
    /\ run' = SwapCapOf(run)

SwapSigmaStep ==
    /\ UNCHANGED apiVars
    /\ run.pc = "swap_begin"
    /\ ~SwapCapReached(run)
    /\ \E refs \in Batches(NCols(run.data), run.B) : run' = SwapSigmaOf(run, refs)

SwapRoundStep ==
    /\ UNCHANGED apiVars
    /\ run.pc = "swap_loop"
    /\ ~ArmLoopDone(run.st)
    /\ \E refs \in Batches(NCols(run.data), run.B) : run' = SwapRoundOf(run, refs)

SwapStopStep ==
    /\ UNCHANGED apiVars
    /\ run.pc = "swap_loop"
    /\ ArmLoopDone(run.st)
    /\ ~SwapAccepts(run)
    /\ run' = SwapStopOf(run)

SwapAcceptStep ==
    /\ UNCHANGED apiVars
    /\ run.pc = "swap_loop"
    /\ ArmLoopDone(run.st)
    /\ SwapAccepts(run)
    /\ run' = SwapAcceptOf(run)

NextFit ==
    \/ BuildSigmaStep
    \/ BuildRoundStep
    \/ BuildPickStep
    \/ SwapCapStep
    \/ SwapSigmaStep
    \/ SwapRoundStep
    \/ SwapStopStep
    \/ SwapAcceptStep

(***************************************************************************)
(* fit_bpam as one call, every batch covering the data (batch size = n, so *)
(* that the run is a function of its arguments).                           *)
(***************************************************************************)
AllRefs(data) == [j \in DOMAIN data |-> j]

FitStepOf(r, refs) ==
    CASE r.pc = "build_sigma" -> BuildSigmaOf(r, refs)
      [] r.pc = "build_loop" /\ ~ArmLoopDone(r.st) -> BuildRoundOf(r, refs)
      [] r.pc = "build_loop" /\ ArmLoopDone(r.st) -> BuildPickOf(r)
      [] r.pc = "swap_begin" /\ SwapCapReached(r) -> SwapCapOf(r)
      [] r.pc = "swap_begin" /\ ~SwapCapReached(r) -> SwapSigmaOf(r, refs)
      [] r.pc = "swap_loop" /\ ~ArmLoopDone(r.st) -> SwapRoundOf(r, refs)
      [] r.pc = "swap_loop" /\ ArmLoopDone(r.st) /\ ~SwapAccepts(r) -> SwapStopOf(r)
      [] r.pc = "swap_loop" /\ ArmLoopDone(r.st) /\ SwapAccepts(r) -> SwapAcceptOf(r)

RECURSIVE FitRun(_)
FitRun(r) == IF r.pc = "done" THEN r ELSE FitRun(FitStepOf(r, AllRefs(r.data)))

fit_bpam(data, fn, k, maxIter) ==
    LET r == FitRun(FitInit(data, fn, k, maxIter, NCols(data), 1))
    IN  [medoid_indices_build |-> r.build_M, medoid_indices_final |-> r.final_M,
         labels |-> r.a, steps |-> r.steps]

(***************************************************************************)
(* Naive PAM (spec 4.6).                                                   *)
(***************************************************************************)
\* the total loss of a medoid vector of any length
LossOf(fn, data, M) == calc_loss(fn, data, M, NCols(M))

\* build_naive, one pass: the index not yet in M that minimizes the resulting
\* total loss, the lowest such index
NaiveBuildPick(fn, data, M) ==
    LET cand == DOMAIN data \ Range(M)
        cost(c) == LossOf(fn, data, Append0(M, c))
    IN  MinOf({c \in cand : \A b \in cand : cost(c) <= cost(b)})

RECURSIVE build_naive(_, _, _, _)
build_naive(fn, data, k, M) ==
    IF NCols(M) >= k THEN M
    ELSE build_naive(fn, data, k, Append0(M, NaiveBuildPick(fn, data, M)))

\* swap_naive, one iteration: the best of the K (n - K) swaps, the lowest
\* (k, n') among the best; {} when there is no swap
NaiveBestSwap(fn, data, M) ==
    LET arms == SwapArms(data, M)
        cost(x) == LossOf(fn, data, [M EXCEPT ![x[1]] = x[2]])
        best == {x \in arms : \A y \in arms : cost(x) <= cost(y)}
    IN  IF arms = {} THEN {} ELSE {FirstArm(best)}

RECURSIVE swap_naive(_, _, _, _, _)
swap_naive(fn, data, M, maxIter, iter) ==
    LET bs == NaiveBestSwap(fn, data, M)
    IN  IF iter >= maxIter \/ bs = {} THEN [M |-> M, steps |-> iter]
        ELSE LET x == FirstArm(bs)
                 newM == [M EXCEPT ![x[1]] = x[2]]
             IN  IF LossOf(fn, data, newM) < LossOf(fn, data, M)
                 THEN swap_naive(fn, data, newM, maxIter, iter + 1)
                 ELSE [M |-> M, steps |-> iter]

fit_naive(data, fn, k, maxIter) ==
    LET bM == build_naive(fn, data, k, EmptyVec)
        sw == swap_naive(fn, data, bM, maxIter, 0)
        bd == calc_best_distances_swap(fn, data, sw.M, [i \in DOMAIN data |-> 0])
    IN  [medoid_indices_build |-> bM, medoid_indices_final |-> sw.M,
         labels |-> bd.assignments, steps |-> sw.steps]

SpecFit == InitFit /\ [][NextFit]_vars

\* a vector of k pairwise distinct indices in [0, n)
DistinctIndices(M, k, n) ==
    /\ DOMAIN M = 0..(k - 1)
    /\ \A i \in DOMAIN M : M[i] \in 0..(n - 1)
    /\ \A i, j \in DOMAIN M : i # j => M[i] # M[j]

InSwapPhase(r) == r.pc \in {"swap_begin", "swap_loop", "done"}

\* C5: at the end of BUILD, after every accepted swap and at the end of the
\* fit (0 < k <= n) the medoid vector has exactly k entries, all of them
\* indices in [0, n) and pairwise distinct.
C5_MedoidsDistinct ==
    InSwapPhase(run) =>
        /\ DistinctIndices(run.build_M, run.k, NCols(run.data))
        /\ DistinctIndices(run.M, run.k, NCols(run.data))
        /\ run.pc = "done" => DistinctIndices(run.final_M, run.k, NCols(run.data))

\* C6: the recorded swap losses never increase by more than epsilon from one
\* accepted swap to the next, so the loss of the final medoids is at most the
\* loss of the build medoids plus epsilon.
C6_SwapLossNonIncreasing ==
    InSwapPhase(run) =>
        /\ \A i \in 1..(Len(run.loss_swap) - 1) :
              precisionDen * run.loss_swap[i + 1] <= precisionDen * run.loss_swap[i] + 1
        /\ run.pc = "done" =>
              precisionDen * LossOf(run.lossFn, run.data, run.final_M)
                <= precisionDen * LossOf(run.lossFn, run.data, run.build_M) + 1

\* C7, the safety part: steps never exceeds max_iter, steps counts the
\* accepted swaps (one recorded loss each, after the loss of the build
\* medoids), and the phase has stopped either on a survivor that is no strict
\* improvement, before the cap, or with max_iter iterations run.
StepsWithinCap ==
    /\ run.steps <= run.max_iter
    /\ run.steps = run.iter
    /\ InSwapPhase(run) => Len(run.loss_swap) = run.steps + 1
    /\ run.pc = "done" =>
          \/ run.stop = "max_iter" /\ run.steps = run.max_iter
          \/ run.stop = "no_improvement" /\ run.steps < run.max_iter

\* The steps a pass of BUILD or an iteration of SWAP takes at most: the sigma
\* estimation, a round per sample drawn (T grows in every round, up to n),
\* the selection.
PassSteps(r) == NCols(r.data) + 2

\* the samples the active arms have drawn in the current pass
PassProgress(st) == IF st.S = {} THEN 0 ELSE MinOf({st.T[c] : c \in st.S})

\* An upper bound on the steps the fit still takes.
StepsLeft(r) ==
    LET swapAll == r.max_iter * PassSteps(r) + 1
        swapNow == (r.max_iter - r.iter) * PassSteps(r) + 1
    IN  CASE r.pc = "build_sigma" -> (r.k - NCols(r.M)) * PassSteps(r) + swapAll
          [] r.pc = "build_loop"  -> (r.k - NCols(r.M)) * PassSteps(r) + swapAll
                                       - (1 + PassProgress(r.st))
          [] r.pc = "swap_begin"  -> swapNow
          [] r.pc = "swap_loop"   -> swapNow - (1 + PassProgress(r.st))
          [] r.pc = "done"        -> 0

\* C7: the SWAP phase always terminates, with steps <= max_iter: it stops at
\* the first iteration whose survivor is not a strict improvement or when
\* max_iter iterations have run, and steps counts exactly the accepted swaps.
\* Termination: every step lowers the bound StepsLeft, which is never
\* negative and is 0 only when the fit is done, so no fit takes more steps
\* than StepsLeft of its first state.
C7_SwapTerminatesWithinCap ==
    /\ [](StepsWithinCap)
    /\ [](StepsLeft(run) >= 0 /\ (StepsLeft(run) = 0 <=> run.pc = "done"))
    /\ [][StepsLeft(run') < StepsLeft(run)]_vars

\* a fit that accepted max_iter swaps and stopped on the cap
C7_Witness ==
    /\ run.pc = "done"
    /\ run.stop = "max_iter"
    /\ run.max_iter = MaxIterBound
    /\ run.steps = MaxIterBound

\* every two candidates of a BUILD pass differ in the loss they lead to, and
\* so do every two swaps of a SWAP iteration, whatever the medoids so far
\* (integer losses: a difference is at least 1 > epsilon)
DistinctVecs(data, K) ==
    {M \in MedoidVecs(data, K) : \A i, j \in DOMAIN M : i # j => M[i] # M[j]}

GapCondition(fn, data, k) ==
    /\ \A K \in 0..(k - 1) : \A M \in DistinctVecs(data, K) :
          \A c, d \in DOMAIN data \ Range(M) :
              c # d => LossOf(fn, data, Append0(M, c)) # LossOf(fn, data, Append0(M, d))
    /\ \A M \in DistinctVecs(data, k) :
          \A x, y \in SwapArms(data, M) :
              x # y => LossOf(fn, data, [M EXCEPT ![x[1]] = x[2]])
                         # LossOf(fn, data, [M EXCEPT ![y[1]] = y[2]])

\* C8: on a data set that meets the gap condition, a BanditPAM fit ends, for
\* every sequence of batches, with the final medoid set of the naive PAM fit
\* on the same data, k, loss and max_iter.
C8_SameMedoidsAsNaive ==
    (run.pc = "done" /\ GapCondition(run.lossFn, run.data, run.k)) =>
        Range(run.final_M)
          = Range(fit_naive(run.data, run.lossFn, run.k, run.max_iter).medoid_indices_final)

(***************************************************************************)
(* The parallel region of calc_best_distances_swap: the iterations of the  *)
(* loop over the points are handed to the threads of the team in any       *)
(* order, and the threads' steps interleave.  best, second and k are       *)
(* locals of an iteration; assignments(i) is written inside the inner loop *)
(* and best_distances(i), second_distances(i) at the end of iteration i.   *)
(***************************************************************************)
Threads == {"t1", "t2"}

IdleThread == [it |-> -1]

AllIdle(r) == \A t \in Threads : r.th[t] = IdleThread

RegionDone(r) == r.todo = {} /\ AllIdle(r)

BestRegionInit(data, M) ==
    [pc |-> "calc_best", data |-> data, lossFn |-> "manhattan",
     medoid_indices |-> M,
     todo |-> DOMAIN data,
     th |-> [t \in Threads |-> IdleThread],
     best_distances   |-> [i \in DOMAIN data |-> Infinity],
     second_distances |-> [i \in DOMAIN data |-> Infinity],
     assignments      |-> [i \in DOMAIN data |-> NCols(M) - 1]]

InitBest ==
    /\ ApiIdle
    /\ \E data \in DataSets, K \in {1, 2, 3} :
          \E M \in MedoidVecs(data, K) : run = BestRegionInit(data, M)

\* a thread takes an iteration of the loop: best = second = infinity, k = 0
BestTake(t) ==
    /\ UNCHANGED apiVars
    /\ run.pc = "calc_best"
    /\ run.th[t] = IdleThread
    /\ \E i \in run.todo :
         run' = [run EXCEPT
                   !.todo = @ \ {i},
                   !.th[t] = [it |-> i, k |-> 0, best |-> Infinity,
                              second |-> Infinity]]

\* one pass of the inner loop over the medoids
BestInner(t) ==
    /\ UNCHANGED apiVars
    /\ run.pc = "calc_best"
    /\ run.th[t] # IdleThread
    /\ run.th[t].k < NCols(run.medoid_indices)
    /\ LET me   == run.th[t]
           cost == Loss(run.lossFn, run.data, run.medoid_indices[me.k], me.it)
       IN  IF BestStepLt(cost, me.best)
           THEN run' = [run EXCEPT
                          !.assignments[me.it] = me.k,
                          !.th[t].second = me.best,
                          !.th[t].best = cost,
                          !.th[t].k = @ + 1]
           ELSE IF cost < me.second
                THEN run' = [run EXCEPT !.th[t].second = cost, !.th[t].k = @ + 1]
                ELSE run' = [run EXCEPT !.th[t].k = @ + 1]

\* the end of the iteration: its two output slots
BestStore(t) ==
    /\ UNCHANGED apiVars
    /\ run.pc = "calc_best"
    /\ run.th[t] # IdleThread
    /\ run.th[t].k >= NCols(run.medoid_indices)
    /\ LET me == run.th[t]
       IN  run' = [run EXCEPT
                     !.best_distances[me.it] = me.best,
                     !.second_distances[me.it] = me.second,
                     !.th[t] = IdleThread]

BestTakeStep == \E t \in Threads : BestTake(t)

BestInnerStep == \E t \in Threads : BestInner(t)

BestStoreStep == \E t \in Threads : BestStore(t)

NextBest ==
    \/ BestTakeStep
    \/ BestInnerStep
    \/ BestStoreStep

SpecBest == InitBest /\ [][NextBest]_vars

\* the distances from the medoids to point i, by position
MedoidDist(r, i) ==
    [k \in DOMAIN r.medoid_indices |-> Loss(r.lossFn, r.data, r.medoid_indices[k], i)]

\* the second-smallest value of a multiset of distances given by position:
\* the minimum once one position that attains the minimum is taken out
SecondSmallest(dist) ==
    LET K    == DOMAIN dist
        lo   == MinOf({dist[k] : k \in K})
        kmin == MinOf({k \in K : dist[k] = lo})
        rest == {dist[k] : k \in K \ {kmin}}
    IN  IF rest = {} THEN Infinity ELSE MinOf(rest)

\* C10: once calc_best_distances_swap has run on a medoid vector of length
\* K >= 1, under every interleaving of its iterations, for every point i
\* d1[i] is the minimum distance to a medoid, d2[i] the second-smallest value
\* of the multiset of distances (infinity when K = 1, equal to d1[i] when the
\* minimum is attained twice), d1[i] <= d2[i], and a[i] is the lowest
\* position in [0, K) that attains d1[i].
C10_BestSecondAssign ==
    (run.pc = "calc_best" /\ RegionDone(run)) =>
        \A i \in DOMAIN run.data :
            LET dist == MedoidDist(run, i)
                K    == DOMAIN dist
            IN  /\ run.best_distances[i] = MinOf({dist[k] : k \in K})
                /\ run.second_distances[i] = SecondSmallest(dist)
                /\ run.best_distances[i] <= run.second_distances[i]
                /\ run.assignments[i] \in K
                /\ dist[run.assignments[i]] = run.best_distances[i]
                /\ \A k \in K : dist[k] = run.best_distances[i] => run.assignments[i] <= k

\* a finished region on three medoids where some point has its minimum
\* attained twice, at positions that are not the first, and a larger third
\* distance
C10_Witness ==
    /\ run.pc = "calc_best"
    /\ RegionDone(run)
    /\ NCols(run.medoid_indices) = 3
    /\ \E i \in DOMAIN run.data :
         /\ run.assignments[i] = 1
         /\ run.second_distances[i] = run.best_distances[i]
         /\ MedoidDist(run, i)[0] > run.best_distances[i]
         /\ MedoidDist(run, i)[2] = run.best_distances[i]

(***************************************************************************)
(* The parallel regions of build_sigma and swap_sigma.  tmp_refs and the   *)
(* vector sample are declared before the omp parallel for, so the team     *)
(* shares one sample vector: every iteration stores its B samples in       *)
(* sample(0 .. B-1) and then reads the vector back in arma::stddev.  The   *)
(* threads' steps interleave at the granularity of one access to sample;   *)
(* writes and reads log <<array, index, iteration>> for every access to a  *)
(* vector that the region writes.                                          *)
(***************************************************************************)
SigmaRegionInit(pc, data, M, refs) ==
    LET K  == NCols(M)
        bd == calc_best_distances_swap("manhattan", data, M, [i \in DOMAIN data |-> 0])
    IN  [pc |-> pc, data |-> data, lossFn |-> "manhattan",
         medoid_indices |-> M, tmp_refs |-> refs,
         use_absolute |-> (K = 0),
         best_distances |-> bd.best_distances,
         second_best_distances |-> bd.second_distances,
         assignments |-> bd.assignments,
         todo |-> IF pc = "build_sigma" THEN DOMAIN data
                  ELSE 0..(K * NCols(data) - 1),
         th |-> [t \in Threads |-> IdleThread],
         sample |-> [j \in DOMAIN refs |-> 0],
         sigma |-> << >>,
         writes |-> {}, reads |-> {}]

\* build_sigma runs in every pass of BUILD (no medoid yet, or one); swap_sigma
\* on a medoid vector of length 1
InitSigma ==
    /\ ApiIdle
    /\ \E data \in DataSets, refs \in Batches(NPoints, NPoints - 1) :
          \/ run = SigmaRegionInit("build_sigma", data, EmptyVec, refs)
          \/ \E M \in MedoidVecs(data, 1) :
                \/ run = SigmaRegionInit("build_sigma", data, M, refs)
                \/ run = SigmaRegionInit("swap_sigma", data, M, refs)

InSigmaRegion(r) == r.pc \in {"build_sigma", "swap_sigma"}

\* a thread takes an iteration of the loop
SigmaTake(t) ==
    /\ UNCHANGED apiVars
    /\ InSigmaRegion(run)
    /\ run.th[t] = IdleThread
    /\ \E i \in run.todo :
         run' = [run EXCEPT !.todo = @ \ {i},
                            !.th[t] = [it |-> i, j |-> 0, phase |-> "store"]]

\* the value the first assignment to sample(j) stores
SigmaFirstStore(r, i, j) ==
    LET ref  == r.tmp_refs[j]
        K    == NCols(r.medoid_indices)
    IN  IF r.pc = "build_sigma"
        THEN LET cost == Loss(r.lossFn, r.data, i, ref)
             IN  IF r.use_absolute THEN cost
                 ELSE IF cost < r.best_distances[ref] THEN cost
                      ELSE r.best_distances[ref]
        ELSE LET n    == i \div K
                 k    == i % K
                 cost == Loss(r.lossFn, r.data, n, ref)
             IN  IF k = r.assignments[ref]
                 THEN (IF cost < r.second_best_distances[ref] THEN cost
                       ELSE r.second_best_distances[ref])
                 ELSE (IF cost < r.best_distances[ref] THEN cost
                       ELSE r.best_distances[ref])

\* sample(j) = ...
SigmaStore(t) ==
    /\ UNCHANGED apiVars
    /\ InSigmaRegion(run)
    /\ run.th[t] # IdleThread
    /\ run.th[t].phase = "store"
    /\ run.th[t].j < NCols(run.tmp_refs)
    /\ LET me   == run.th[t]
           last == run.pc = "build_sigma" /\ run.use_absolute
       IN  run' = [run EXCEPT
                     !.sample[me.j] = SigmaFirstStore(run, me.it, me.j),
                     !.writes = @ \cup {<<"sample", me.j, me.it>>},
                     !.th[t].phase = IF last THEN "store" ELSE "sub",
                     !.th[t].j = IF last THEN @ + 1 ELSE @]

\* sample(j) -= best_distances(tmp_refs(j))
SigmaSub(t) ==
    /\ UNCHANGED apiVars
    /\ InSigmaRegion(run)
    /\ run.th[t] # IdleThread
    /\ run.th[t].phase = "sub"
    /\ LET me == run.th[t]
       IN  run' = [run EXCEPT
                     !.sample[me.j] = @ - run.best_distances[run.tmp_refs[me.j]],
                     !.reads = @ \cup {<<"sample", me.j, me.it>>},
                     !.writes = @ \cup {<<"sample", me.j, me.it>>},
                     !.th[t].phase = "store",
                     !.th[t].j = @ + 1]

\* sigma(i) = arma::stddev(sample), sigma(k, n) in swap_sigma
SigmaStddev(t) ==
    /\ UNCHANGED apiVars
    /\ InSigmaRegion(run)
    /\ run.th[t] # IdleThread
    /\ run.th[t].phase = "store"
    /\ run.th[t].j >= NCols(run.tmp_refs)
    /\ LET me == run.th[t]
       IN  run' = [run EXCEPT
                     !.sigma = [i \in (DOMAIN @) \cup {me.it} |->
                                   IF i = me.it THEN VarNum(run.sample) ELSE @[i]],
                     !.reads = @ \cup {<<"sample", j, me.it>> : j \in DOMAIN run.sample},
                     !.writes = @ \cup {<<"sigma", me.it, me.it>>},
                     !.th[t] = IdleThread]

SigmaTakeStep == \E t \in Threads : SigmaTake(t)

SigmaStoreStep == \E t \in Threads : SigmaStore(t)

SigmaSubStep == \E t \in Threads : SigmaSub(t)

SigmaStddevStep == \E t \in Threads : SigmaStddev(t)

NextSigma ==
    \/ SigmaTakeStep
    \/ SigmaStoreStep
    \/ SigmaSubStep
    \/ SigmaStddevStep

SpecSigma == InitSigma /\ [][NextSigma]_vars

\* C4: in a parallel region a location that one iteration writes is neither
\* written nor read by any other iteration of the region.
C4_IterationsTouchOwnSlotsOnly ==
    InSigmaRegion(run) =>
        \A w \in run.writes : \A x \in run.writes \cup run.reads :
            (x[1] = w[1] /\ x[2] = w[2]) => x[3] = w[3]

\* The elimination loop of a BUILD pass run to its end on one batch per round
RECURSIVE ArmLoop(_, _, _, _, _)
ArmLoop(st, reward, refs, n, conf) ==
    IF ArmLoopDone(st) THEN st
    ELSE ArmLoop(ArmRound(st, reward, refs, n, conf), reward, refs, n, conf)

\* The medoid the BUILD pass of region r selects when its sigma estimation
\* yields sigma and the sampler then draws the same batch again in every round
BuildPickWith(r, sigma) ==
    BuildSurvivor(
        ArmLoop(ArmInit(DOMAIN r.data, sigma),
                BuildReward(r.lossFn, r.data, r.best_distances, r.use_absolute),
                r.tmp_refs, NCols(r.data), 1))

\* C9: with the data, the parameters and the drawn batches fixed, the medoid a
\* BUILD pass selects does not depend on how the iterations of build_sigma
\* were scheduled: it is the medoid selected when they run one after another.
C9_BuildMedoidScheduleIndependent ==
    (run.pc = "build_sigma" /\ RegionDone(run)) =>
        BuildPickWith(run, run.sigma)
          = BuildPickWith(run, build_sigma(run.lossFn, run.data, run.best_distances,
                                           run.tmp_refs, run.use_absolute))

(***************************************************************************)
(* The public interface: the constructor, setAlgorithm, setLossFn and fit  *)
(* on one object.  A fit is one step; its batches cover the data, so its   *)
(* outputs are a function of the object's fields and the arguments.        *)
(***************************************************************************)
NoRun == [pc |-> "api"]

CurOutputs == Outputs(medoid_indices_build, medoid_indices_final, labels, steps)

\* The data matrices handed to fit: no zero column (cos divides by the norms)
FitData ==
    {[i \in 0..(NPoints - 1) |-> 1 + i], [i \in 0..(NPoints - 1) |-> 1 + i * i]}

\* The loss names handed to fit and to setLossFn on the object
FitLossNames == {<<"L", "2">>, STR_cos, STR_manhattan, <<"L", "-", "1">>, <<"L">>}

\* What the embedded interpreter finds: the module and its function, no such
\* module, or the module without the function
PyStates == {"ok", "no_module", "no_function"}

Init ==
    /\ ApiIdle
    /\ run = NoRun

\* KMedoids::KMedoids: the member initializers, then checkAlgorithm; when it
\* throws there is no object
Construct(k, alg, maxIter) ==
    /\ live = "none"
    /\ LET co == checkAlgorithmOutcome(alg, fitFn)
       IN  IF co.end = "ok"
           THEN /\ live' = "live"
                /\ algorithm' = alg
                /\ fitFn' = co.fitFn
                /\ n_medoids' = k
                /\ max_iter' = maxIter
                /\ call' = Call("KMedoids", alg, <<>>, "ok", FALSE, CurOutputs)
           ELSE /\ call' = Call("KMedoids", alg, <<>>, co.end, FALSE, CurOutputs)
                /\ UNCHANGED <<live, algorithm, fitFn, n_medoids, max_iter>>
    /\ UNCHANGED <<lossFn, lp, medoid_indices_build, medoid_indices_final, labels,
                   steps, run>>

\* setAlgorithm assigns the name; fitFn is left for the next fit to select
SetAlgorithm(alg) ==
    /\ live = "live"
    /\ algorithm' = alg
    /\ call' = Call("setAlgorithm", alg, <<>>, "ok", FALSE, CurOutputs)
    /\ UNCHANGED <<live, fitFn, lossFn, lp, n_medoids, max_iter,
                   medoid_indices_build, medoid_indices_final, labels, steps, run>>

SetLossFn(loss) ==
    /\ live = "live"
    /\ LET lo == setLossFnOutcome(loss, lossFn, lp)
       IN  /\ lossFn' = lo.lossFn
           /\ lp' = lo.lp
           /\ call' = Call("setLossFn", "", loss, lo.end, FALSE, CurOutputs)
    /\ UNCHANGED <<live, algorithm, fitFn, n_medoids, max_iter,
                   medoid_indices_build, medoid_indices_final, labels, steps, run>>

\* (this->*fitFn)(input_data) with the loss function fn
FitRoutine(fn, routine, data, k, maxIter) ==
    IF routine = "fit_bpam" THEN fit_bpam(data, fn, k, maxIter)
    ELSE fit_naive(data, fn, k, maxIter)

\* FitRoutine tabulated over the arguments the interface hands it
FitOutcomes ==
    [fn \in {"manhattan", "cos", "LINF", "LP"}, routine \in {"fit_bpam", "fit_naive"},
     data \in FitData, k \in 1..NPoints, maxIter \in {1, MaxIterBound} |->
        FitRoutine(fn, routine, data, k, maxIter)]

\* The loss functions a call through lossFn can run.  lossFn has no
\* initializer: until a setLossFn succeeds the call goes through an
\* indeterminate pointer, and may run any function or crash.
CalledLossFns(fn) ==
    IF fn = "unset" THEN {"crash", "manhattan", "cos", "LINF", "LP"} ELSE {fn}

\* fit: the embedded interpreter, setLossFn, checkAlgorithm, the fit routine
Fit(data, loss, py) ==
    /\ live = "live"
    /\ UNCHANGED <<algorithm, n_medoids, max_iter, run>>
    /\ LET lo == setLossFnOutcome(loss, lossFn, lp)
           co == checkAlgorithmOutcome(algorithm, fitFn)
           stay == UNCHANGED <<medoid_indices_build, medoid_indices_final, labels, steps>>
       IN  IF py = "no_module"
           THEN \* exit(1)
                /\ live' = "exited"
                /\ call' = Call("fit", algorithm, loss, "exit", FALSE, CurOutputs)
                /\ stay
                /\ UNCHANGED <<fitFn, lossFn, lp>>
           ELSE \E pyCrash \in IF py = "no_function" THEN {TRUE, FALSE} ELSE {FALSE} :
                IF pyCrash
                THEN \* PyObject_CallObject on a null callable
                     /\ live' = "crashed"
                     /\ call' = Call("fit", algorithm, loss, "crash", FALSE, CurOutputs)
                     /\ stay
                     /\ UNCHANGED <<fitFn, lossFn, lp>>
                ELSE IF lo.end = "out_of_range"
                THEN /\ call' = Call("fit", algorithm, loss, lo.end, FALSE, CurOutputs)
                     /\ stay
                     /\ UNCHANGED <<live, fitFn, lossFn, lp>>
                ELSE IF co.end # "ok"
                THEN /\ lossFn' = lo.lossFn
                     /\ lp' = lo.lp
                     /\ call' = Call("fit", algorithm, loss, co.end, FALSE, CurOutputs)
                     /\ stay
                     /\ UNCHANGED <<live, fitFn>>
                ELSE /\ lossFn' = lo.lossFn
                     /\ lp' = lo.lp
                     /\ fitFn' = co.fitFn
                     /\ \E fn \in CalledLossFns(lo.lossFn) :
                          IF fn = "crash"
                          THEN /\ live' = "crashed"
                               /\ call' = Call("fit", algorithm, loss, "crash", TRUE,
                                               CurOutputs)
                               /\ stay
                          ELSE LET out == FitOutcomes[fn, co.fitFn, data, n_medoids, max_iter]
                               IN  /\ live' = live
                                   /\ medoid_indices_build' = out.medoid_indices_build
                                   /\ medoid_indices_final' = out.medoid_indices_final
                                   /\ labels' = out.labels
                                   /\ steps' = out.steps
                                   /\ call' = Call("fit", algorithm, loss, "ok", TRUE,
                                                   CurOutputs)

ConstructStep ==
    \E k \in 1..NPoints, alg \in AlgorithmNames, maxIter \in {1, MaxIterBound} :
        Construct(k, alg, maxIter)

SetAlgorithmStep == \E alg \in AlgorithmNames : SetAlgorithm(alg)

SetLossFnStep == \E loss \in FitLossNames : SetLossFn(loss)

FitStep == \E data \in FitData, loss \in FitLossNames, py \in PyStates : Fit(data, loss, py)

Next ==
    \/ ConstructStep
    \/ SetAlgorithmStep
    \/ SetLossFnStep
    \/ FitStep

Spec == Init /\ [][Next]_vars

(***************************************************************************)
(* setLossFn on every name, one call per behaviour: the call is entered    *)
(* ("called") in the first state and has returned or thrown in the second. *)
(***************************************************************************)
InitLoss ==
    /\ live = "live"
    /\ algorithm = "BanditPAM"
    /\ fitFn = "fit_bpam"
    /\ lossFn \in {"unset", "LINF"}
    /\ lp = 0
    /\ n_medoids = 1
    /\ max_iter = 1
    /\ medoid_indices_build = EmptyVec
    /\ medoid_indices_final = EmptyVec
    /\ labels = EmptyVec
    /\ steps = 0
    /\ \E loss \in LossNames :
          call = Call("setLossFn", "", loss, "called", FALSE, NoOutputs)
    /\ run = NoRun

SetLossFnCall ==
    /\ call.end = "called"
    /\ SetLossFn(call.loss)

NextLoss == SetLossFnCall

SpecLoss == InitLoss /\ [][NextLoss]_vars

\* The grammar of loss names: manhattan | cos | inf | L?<digit>+
GrammarDigits(name) ==
    IF Len(name) >= 1 /\ name[1] = "L" THEN Tail(name) ELSE name

InGrammar(name) ==
    \/ name \in {STR_manhattan, STR_cos, STR_inf}
    \/ /\ Len(GrammarDigits(name)) >= 1
       /\ \A i \in 1..Len(GrammarDigits(name)) : GrammarDigits(name)[i] \in Digits

RECURSIVE DecimalValue(_)
DecimalValue(ds) ==
    IF Len(ds) = 0 THEN 0
    ELSE 10 * DecimalValue(SubSeq(ds, 1, Len(ds) - 1)) + DigitVal(ds[Len(ds)])

\* C2: setLossFn accepts exactly the names of the grammar: a name of the
\* grammar selects its loss function (Lp with p the parsed integer for the
\* digit forms), every other name ends in the unrecognized-loss error.
C2_LossGrammarExact ==
    (call.op = "setLossFn" /\ call.end # "called") =>
        IF InGrammar(call.loss)
        THEN /\ call.end = "ok"
             /\ call.loss = STR_manhattan => lossFn = "manhattan"
             /\ call.loss = STR_cos => lossFn = "cos"
             /\ call.loss = STR_inf => lossFn = "LINF"
             /\ call.loss \notin {STR_manhattan, STR_cos, STR_inf} =>
                   lossFn = "LP" /\ lp = DecimalValue(GrammarDigits(call.loss))
        ELSE call.end = "printed"

\* fit got as far as checking its arguments and one of them is in error
FitDetectsError ==
    /\ call.op = "fit"
    /\ call.end # "exit"
    /\ ~(call.end = "crash" /\ ~call.ran)
    /\ \/ ~InGrammar(call.loss)
       \/ call.alg \notin {"BanditPAM", "naive"}

\* C1: when fit detects an error (a loss name outside the grammar, an
\* algorithm name other than "BanditPAM" and "naive"), the call ends with the
\* error, the fit routine has not run, and the build medoids, the final
\* medoids, the labels and the step count are what they were before the call.
C1_FitErrorsAbort ==
    FitDetectsError =>
        /\ call.end \in {"printed", "out_of_range", "unrecognized algorithm"}
        /\ ~call.ran
        /\ CurOutputs = call.before

\* C3: the constructor with "BanditPAM" selects fit_bpam and with "naive"
\* selects fit_naive, without error; with any other algorithm name it raises
\* "unrecognized algorithm" and there is no object.
C3_ConstructorChecksAlgorithm ==
    call.op = "KMedoids" =>
        IF call.alg = "BanditPAM"
        THEN call.end = "ok" /\ live = "live" /\ algorithm = call.alg /\ fitFn = "fit_bpam"
        ELSE IF call.alg = "naive"
        THEN call.end = "ok" /\ live = "live" /\ algorithm = call.alg /\ fitFn = "fit_naive"
        ELSE call.end = "unrecognized algorithm" /\ live = "none" /\ fitFn = "unset"

\* the constructor has thrown on a name that differs from "BanditPAM" in case
C3_Witness ==
    /\ call.op = "KMedoids"
    /\ call.alg = "banditpam"
    /\ call.end = "unrecognized algorithm"
    /\ live = "none"

(***************************************************************************)
(* calc_loss called on its own, on an object with n_medoids set by the     *)
(* constructor or setNMedoids and a medoid vector of any length >= 1.  The *)
(* inner loop runs k < n_medoids: with n_medoids above the length of the   *)
(* vector, medoid_indices(k) is an access outside it, which either throws  *)
(* (Armadillo's bounds check) or, with the check compiled out, reads       *)
(* whatever lies there.                                                    *)
(***************************************************************************)
LiveObject(k) ==
    /\ live = "live"
    /\ algorithm = "BanditPAM"
    /\ fitFn = "fit_bpam"
    /\ lossFn = "manhattan"
    /\ lp = 0
    /\ n_medoids = k
    /\ max_iter = 1
    /\ medoid_indices_build = EmptyVec
    /\ medoid_indices_final = EmptyVec
    /\ labels = EmptyVec
    /\ steps = 0
    /\ call = Call("setLossFn", "", STR_manhattan, "ok", FALSE, NoOutputs)

InitCalcLoss ==
    /\ \E k \in 1..NPoints : LiveObject(k)
    /\ \E data \in DataSets, K \in 1..NPoints :
          \E M \in MedoidVecs(data, K) :
              run = [pc |-> "calc_loss", data |-> data, medoid_indices |-> M,
                     read |-> {}, end |-> "called", total |-> 0]

\* the values medoid_indices(k) yields for k = 0 .. nMed-1: the entries of
\* the vector and, past its end, any column index
ReadVectors(data, M, nMed) ==
    {v \in [0..(nMed - 1) -> DOMAIN data] :
        \A k \in DOMAIN v : k \in DOMAIN M => v[k] = M[k]}

\* the call returns
CalcLossReturn ==
    /\ UNCHANGED apiVars
    /\ run.pc = "calc_loss"
    /\ run.end = "called"
    /\ \E v \in ReadVectors(run.data, run.medoid_indices, n_medoids) :
         run' = [run EXCEPT
                   !.end = "ok",
                   !.read = 0..(n_medoids - 1),
                   !.total = calc_loss(lossFn, run.data, v, n_medoids)]

\* the bounds check of medoid_indices(k) throws
CalcLossThrow ==
    /\ UNCHANGED apiVars
    /\ run.pc = "calc_loss"
    /\ run.end = "called"
    /\ n_medoids > NCols(run.medoid_indices)
    /\ run' = [run EXCEPT
                 !.end = "index out of bounds",
                 !.read = 0..NCols(run.medoid_indices)]

NextCalcLoss ==
    \/ CalcLossReturn
    \/ CalcLossThrow

SpecCalcLoss == InitCalcLoss /\ [][NextCalcLoss]_vars

\* loss(X, M) = sum over the points i of the minimum over the entries m of M
\* of dist(m, i)
LossOverEntries(fn, data, M) ==
    SumTo([i \in DOMAIN data |-> MinOf({Loss(fn, data, M[k], i) : k \in DOMAIN M})],
          NCols(data))

\* C11: for every medoid vector M passed to it, calc_loss returns the sum over
\* all points of the minimum distance to an entry of M; it reads every entry
\* of M and no index outside M, whatever the other state of the object.
C11_LossOverAllEntries ==
    (run.pc = "calc_loss" /\ run.end # "called") =>
        /\ run.end = "ok"
        /\ run.read = DOMAIN run.medoid_indices
        /\ run.total = LossOverEntries(lossFn, run.data, run.medoid_indices)

\* phi(j; k, n') of the SWAP reward for the region r
SwapPhi(r, k, n, j) ==
    IF r.assignments[j] = k
    THEN Min2(Loss(r.lossFn, r.data, n, j), r.second_best_distances[j])
    ELSE Min2(Loss(r.lossFn, r.data, n, j), r.best_distances[j])

\* the samples s_j = phi(j; k, n') - d1[j] of the arm (k, n') over the batch
SwapArmSamples(r, k, n) ==
    [j \in DOMAIN r.tmp_refs |->
        SwapPhi(r, k, n, r.tmp_refs[j]) - r.best_distances[r.tmp_refs[j]]]

\* C12: swap_sigma fills sigma for every arm exactly once: the flat index i in
\* [0, K*n) as (n' = i / K, k = i % K) meets every pair (k, n') exactly once,
\* and sigma[k, n'] is the standard deviation of the samples
\* s_j = phi(j; k, n') - d1[j] over the one shared batch, with s_j <= 0
\* whenever a[j] # k.
C12_SwapSigmaPerArm ==
    (run.pc = "swap_sigma" /\ RegionDone(run)) =>
        LET K == NCols(run.medoid_indices)
            N == NCols(run.data)
            flat == 0..(K * N - 1)
        IN  /\ DOMAIN run.sigma = flat
            /\ \A k \in 0..(K - 1), n \in 0..(N - 1) :
                  Cardinality({i \in flat : i \div K = n /\ i % K = k}) = 1
            /\ \A i \in flat :
                  {w[3] : w \in {x \in run.writes : x[1] = "sigma" /\ x[2] = i}} = {i}
            /\ \A i \in flat :
                  run.sigma[i] = VarNum(SwapArmSamples(run, i % K, i \div K))
            /\ \A i \in flat : \A j \in DOMAIN run.tmp_refs :
                  run.assignments[run.tmp_refs[j]] # i % K =>
                      SwapArmSamples(run, i % K, i \div K)[j] <= 0

(***************************************************************************)
(* The elimination loop of a BUILD pass.                                   *)
(***************************************************************************)
CeilDiv(a, b) == (a + b - 1) \div b

\* The rounds the loop of the current pass has run: every active arm has
\* drawn the same batches, B samples a round, capped at n.
RoundsDone(r) == CeilDiv(PassProgress(r.st), r.B)

MaxRounds(r) == CeilDiv(NCols(r.data), r.B)

\* the arms of st that attain the smallest lcb
MinLcbArms(st, B, conf) ==
    {c \in st.S : \A b \in st.S : ~LcbGreater(st, B, conf, c, b)}

BuildLoopState(r) ==
    LET n == NCols(r.data)
    IN  /\ r.st.S # {}
        /\ \A c \in r.st.S :
              /\ r.st.T[c] = Min2(RoundsDone(r) * r.B, n)
              /\ r.st.exhausted[c] <=> r.st.T[c] >= n
        /\ RoundsDone(r) <= MaxRounds(r)
        /\ RoundsDone(r) = MaxRounds(r) => ArmLoopDone(r.st)

BuildLoopRound(r, rn) ==
    LET n == NCols(r.data)
    IN  /\ ~ArmLoopDone(r.st)
        /\ rn.st.S \subseteq r.st.S
        /\ RoundsDone(rn) = RoundsDone(r) + 1
        /\ \A c \in rn.st.S : rn.st.T[c] = Min2(r.st.T[c] + r.B, n)
        /\ \E refs \in Batches(n, r.B) :
              LET u == ArmUpdate(r.st,
                                 BuildReward(r.lossFn, r.data, r.d1, NCols(r.M) = 0),
                                 refs, n)
              IN  /\ MinLcbArms(u, r.B, r.conf) # {}
                  /\ MinLcbArms(u, r.B, r.conf) \subseteq rn.st.S

BuildLoopExit(r) ==
    /\ ArmLoopDone(r.st)
    /\ Cardinality(r.st.S) >= 1
    /\ RoundsDone(r) <= MaxRounds(r)

\* C13: every BUILD pass's elimination loop terminates with a non-empty
\* candidate set: each round raises T[c] by B, capped at n, for every active
\* arm that is not exhausted and marks it exhausted once T[c] >= n; an arm
\* attaining the minimum lcb is never eliminated; so after at most
\* ceil(n / B) rounds the loop exits with |S| <= 1 or all of S exhausted,
\* and |S| >= 1.
C13_BuildLoopTerminatesNonEmpty ==
    /\ [](run.pc = "build_loop" => BuildLoopState(run))
    /\ [][(run.pc = "build_loop" /\ run'.pc = "build_loop")
             => BuildLoopRound(run, run')]_vars
    /\ [][(run.pc = "build_loop" /\ run'.pc # "build_loop")
             => BuildLoopExit(run)]_vars

\* a BUILD pass whose loop ran ceil(n / B) = 2 rounds and ended with several
\* arms left, all exhausted
C13_Witness ==
    /\ run.pc = "build_loop"
    /\ RoundsDone(run) = 2
    /\ MaxRounds(run) = 2
    /\ ArmLoopDone(run.st)
    /\ Cardinality(run.st.S) >= 2
    /\ \A c \in run.st.S : run.st.exhausted[c]

====
